---- MODULE Spec2Model ----
(***************************************************************************)
(* Admission-and-mixing pipeline of note-mixer-relay (src/main.go).        *)
(*                                                                         *)
(* Strings of the environment are sequences of characters; an event is a   *)
(* record of the nostr.Event fields the program reads or writes.  The     *)
(* collaborators (event store, local fan-out, peer relays, generic        *)
(* policies) are modelled at their interface: their outcome is an input   *)
(* of the step that calls them.                                            *)
(***************************************************************************)
EXTENDS Integers, Sequences, FiniteSets, TLC

VARIABLES
    config,   \* the Config built by loadConfig, read-only afterwards
    now,      \* the wall clock, time.Now().Unix()
    nreq,     \* counter of the requests handled, counted up to MaxReq
    db,       \* the event store: the set of events SaveEvent accepted
    tasks,    \* running invocations of rebroadcastEvent
    last,     \* what the handler that ran in this step did (NoRun otherwise)
    ret,      \* what rebroadcastEvent returned in this step (NoRet otherwise)
    resp      \* the HTTP response written in this step (NoResp otherwise)

vars == <<config, now, nreq, db, tasks, last, ret, resp>>

\* ------------------------------------------------------------------ bounds
MaxReq == 1      \* requests handled in one behaviour
MaxClock == 1    \* last value of the clock

\* ------------------------------------------------------------ environment
\* Characters an environment value is made of.
Comma == ","
Space == " "

\* strings.TrimSpace
RECURSIVE TrimLeft(_)
TrimLeft(s) ==
    IF s # <<>> /\ Head(s) = Space THEN TrimLeft(Tail(s)) ELSE s

RECURSIVE TrimRight(_)
TrimRight(s) ==
    IF s # <<>> /\ s[Len(s)] = Space
    THEN TrimRight(SubSeq(s, 1, Len(s) - 1))
    ELSE s

TrimSpace(s) == TrimRight(TrimLeft(s))

\* strings.Split(s, ","): always at least one field, possibly empty
RECURSIVE SplitFrom(_, _)
SplitFrom(s, cur) ==
    IF s = <<>> THEN <<cur>>
    ELSE IF Head(s) = Comma THEN <<cur>> \o SplitFrom(Tail(s), <<>>)
    ELSE SplitFrom(Tail(s), Append(cur, Head(s)))

Split(s) == SplitFrom(s, <<>>)

\* loadConfig, lines 95-99: split REBROADCAST_RELAYS and trim every field
ParseRelays(s) ==
    LET fields == Split(s)
    IN  [i \in 1..Len(fields) |-> TrimSpace(fields[i])]

\* Values of REBROADCAST_RELAYS ("" is also what getEnv yields when unset)
RelayA == <<"a">>
RelayB == <<"b">>
RelaysEnvValues ==
    { <<>>,
      <<"a">>,
      <<"a", ",", "b">>,
      <<" ", "a", ",", " ", "b">>,
      <<"a", ",">> }

\* Values of RELAY_PRIVATE_KEY: loadConfig only requires it to be non-empty
GoodKey == "sk_relay"
BadKey == "not-a-key"
PrivateKeys == {GoodKey, BadKey}

\* Values of ALLOWED_KINDS after parseAllowedKinds
AllowedKindsValues == { <<1, 30023>>, <<9999>> }

\* Values of WHITELISTED_PUBKEYS after the loop of loadConfig
WhitelistValues == { {}, {"abc"} }

\* loadConfig
Configs ==
    { [RelayPrivateKey |-> k, AllowedKinds |-> a,
       WhitelistedPubkeys |-> w, RebroadcastRelays |-> ParseRelays(s)] :
          k \in PrivateKeys, a \in AllowedKindsValues,
          w \in WhitelistValues, s \in RelaysEnvValues }

\* ------------------------------------------------------------------ events
\* nostr.GetPublicKey: the public key of a private key
GetPublicKey(sk) ==
    CASE sk = "sk_relay" -> "relaypub"
      [] sk = "sk_abc" -> "abc"
      [] sk = "sk_xyz" -> "xyz"
      [] OTHER -> ""

\* a private key Sign accepts
ValidKey(sk) == sk \in {"sk_relay", "sk_abc", "sk_xyz"}

NoSig == [signer |-> "", msg |-> <<>>]

\* nostr.Event literal: the fields not named are zero
NewEvent(content, createdAt, kind, tags) ==
    [id |-> <<>>, pubkey |-> "", created_at |-> createdAt, kind |-> kind,
     tags |-> tags, content |-> content, sig |-> NoSig]

\* Event.GetID: the hash of the canonical serialization, kept injective
\* an id that does not cover created_at
GetIDWithoutTime(e) == <<e.pubkey, e.kind, e.tags, e.content>>

GetID(e) == <<e.pubkey, e.created_at, e.kind, e.tags, e.content>>

\* Event.Sign with a valid key: sets pubkey, id and sig
Sign(e, sk) ==
    LET withKey == [e EXCEPT !.pubkey = GetPublicKey(sk)]
        id == GetID(withKey)
    IN  [withKey EXCEPT !.id = id,
                        !.sig = [signer |-> GetPublicKey(sk), msg |-> id]]

\* Events a publisher can send on the protocol-native path: the relay
\* framework has already verified id and signature, so each is validly
\* signed by its author (who may be the holder of the relay's own key).
Authors == {"sk_abc", "sk_xyz", "sk_relay"}
Kinds == {1, 9999}
Payloads ==
    { [content |-> "hello", tags |-> <<>>],
      [content |-> "bye", tags |-> << <<"t", "x">> >>] }
InboundTimes == {MaxClock}
InboundEvents ==
    { Sign(NewEvent(p.content, t, k, p.tags), sk) :
          p \in Payloads, t \in InboundTimes, k \in Kinds, sk \in Authors }

\* Form values of the HTTP submission
FormContents == {"", "hello"}
Methods == {"POST", "GET"}

\* --------------------------------------------------------------- admission
InSeq(x, s) == \E i \in 1..Len(s) : s[i] = x

\* fmt.Sprintf("%d", kind)
KindStr(k) ==
    CASE k = 1 -> "1"
      [] k = 9999 -> "9999"
      [] k = 30023 -> "30023"
      [] OTHER -> "?"

Accept == [reject |-> FALSE, reason |-> <<>>]
Reject(reason) == [reject |-> TRUE, reason |-> reason]

\* createRejectUnsupportedKinds
createRejectUnsupportedKinds(allowedKinds, event) ==
    IF InSeq(event.kind, allowedKinds)
    THEN Accept
    ELSE Reject(<<"event kind ", KindStr(event.kind), " is not supported">>)

\* createRejectNonWhitelistedPubkeys without the test for an empty whitelist
rejectPubkeysWithoutEmptyTest(whitelist, event) ==
    IF event.pubkey \notin whitelist
    THEN Reject(<<"pubkey not whitelisted">>)
    ELSE Accept

\* createRejectNonWhitelistedPubkeys
createRejectNonWhitelistedPubkeys(whitelist, event) ==
    IF Cardinality(whitelist) = 0 THEN Accept
    ELSE IF event.pubkey \notin whitelist
         THEN Reject(<<"pubkey not whitelisted">>)
         ELSE Accept

\* The policies of the framework: their verdict is an input, `generic` is
\* the set of them that reject this event.
GenericPolicies == {"RejectEventsWithBase64Media", "EventIPRateLimiter"}
GenericVerdicts == {{}} \cup { {g} : g \in GenericPolicies }

\* relay.RejectEvent with the kind check appended before the pubkey check
RejectEventKindFirst ==
    << "RejectUnsupportedKinds", "RejectNonWhitelistedPubkeys",
       "RejectEventsWithBase64Media", "EventIPRateLimiter" >>

\* relay.RejectEvent as setupRelayHandlers fills it, in order
RejectEvent ==
    << "RejectNonWhitelistedPubkeys", "RejectUnsupportedKinds",
       "RejectEventsWithBase64Media", "EventIPRateLimiter" >>

\* one entry of relay.RejectEvent applied to an event
RunPolicy(name, event, generic) ==
    CASE name = "RejectNonWhitelistedPubkeys" ->
            createRejectNonWhitelistedPubkeys(config.WhitelistedPubkeys, event)
      [] name = "RejectUnsupportedKinds" ->
            createRejectUnsupportedKinds(config.AllowedKinds, event)
      [] OTHER ->
            IF name \in generic THEN Reject(<<"blocked by ", name>>) ELSE Accept

\* The admission chain: the entries of RejectEvent in order, stopping at the
\* first that rejects.  `checked` lists the entries that were evaluated.
RECURSIVE AdmitFrom(_, _, _)
AdmitFrom(i, event, generic) ==
    IF i > Len(RejectEvent)
    THEN [reject |-> FALSE, reason |-> <<>>, checked |-> <<>>]
    ELSE LET o == RunPolicy(RejectEvent[i], event, generic)
         IN  IF o.reject
             THEN [reject |-> TRUE, reason |-> o.reason,
                   checked |-> <<RejectEvent[i]>>]
             ELSE LET rest == AdmitFrom(i + 1, event, generic)
                  IN  [rest EXCEPT !.checked = <<RejectEvent[i]>> \o @]

admit(event, generic) == AdmitFrom(1, event, generic)

\* ------------------------------------------------------ mixAndStoreEvent
Call(op, ev, ok) == [op |-> op, ev |-> ev, ok |-> ok]

\* Mix with the tags left out of the literal
MixWithoutTags(event, t) == NewEvent(event.content, t, event.kind, <<>>)

\* Mix recording the inbound author in a tag
MixTaggingAuthor(event, t) ==
    NewEvent(event.content, t, event.kind,
             Append(event.tags, <<"p", event.pubkey>>))

\* Mix copying CreatedAt from the inbound event
MixKeepingCreatedAt(event, t) ==
    NewEvent(event.content, event.created_at, event.kind, event.tags)

\* The event literal of mixAndStoreEvent, lines 169-174, at clock value t
Mix(event, t) == NewEvent(event.content, t, event.kind, event.tags)

\* mixAndStoreEvent storing and fanning out the event it was given, as a
\* relay without mixing would
storeEventUnmixed(event, privateKey, t, saveOk) ==
    IF ~ValidKey(privateKey)
    THEN [err |-> "failed to sign mixed event",
          calls |-> <<Call("sign", Mix(event, t), FALSE)>>]
    ELSE IF ~saveOk
    THEN [err |-> "failed to save mixed event",
          calls |-> <<Call("sign", event, TRUE), Call("save", event, FALSE)>>]
    ELSE [err |-> "",
          calls |-> <<Call("sign", event, TRUE), Call("save", event, TRUE),
                      Call("broadcast", event, TRUE), Call("go", event, TRUE)>>]

\* mixAndStoreEvent going on after SaveEvent returned an error
mixAndStoreEventIgnoringSaveError(event, privateKey, t, saveOk) ==
    LET unsigned == Mix(event, t)
        mixedEvent == Sign(unsigned, privateKey)
    IN  IF ~ValidKey(privateKey)
        THEN [err |-> "failed to sign mixed event",
              calls |-> <<Call("sign", unsigned, FALSE)>>]
        ELSE [err |-> "",
              calls |-> <<Call("sign", mixedEvent, TRUE),
                          Call("save", mixedEvent, saveOk),
                          Call("broadcast", mixedEvent, TRUE),
                          Call("go", mixedEvent, TRUE)>>]

\* mixAndStoreEvent at clock value t, where SaveEvent answers saveOk:
\* the calls it makes, in order, and the error it returns ("" is nil)
\* mixAndStoreEvent starting the goroutine before it saves and broadcasts
mixAndStoreEventRebroadcastFirst(event, privateKey, t, saveOk) ==
    LET unsigned == Mix(event, t)
        mixedEvent == Sign(unsigned, privateKey)
    IN  IF ~ValidKey(privateKey)
        THEN [err |-> "failed to sign mixed event",
              calls |-> <<Call("sign", unsigned, FALSE)>>]
        ELSE IF ~saveOk
        THEN [err |-> "failed to save mixed event",
              calls |-> <<Call("sign", mixedEvent, TRUE),
                          Call("go", mixedEvent, TRUE),
                          Call("save", mixedEvent, FALSE)>>]
        ELSE [err |-> "",
              calls |-> <<Call("sign", mixedEvent, TRUE),
                          Call("go", mixedEvent, TRUE),
                          Call("save", mixedEvent, TRUE),
                          Call("broadcast", mixedEvent, TRUE)>>]

mixAndStoreEvent(event, privateKey, t, saveOk) ==
    LET unsigned == Mix(event, t)
        mixedEvent == Sign(unsigned, privateKey)
    IN  IF ~ValidKey(privateKey)
        THEN [err |-> "failed to sign mixed event",
              calls |-> <<Call("sign", unsigned, FALSE)>>]
        ELSE IF ~saveOk
        THEN [err |-> "failed to save mixed event",
              calls |-> <<Call("sign", mixedEvent, TRUE),
                          Call("save", mixedEvent, FALSE)>>]
        ELSE [err |-> "",
              calls |-> <<Call("sign", mixedEvent, TRUE),
                          Call("save", mixedEvent, TRUE),
                          Call("broadcast", mixedEvent, TRUE),
                          Call("go", mixedEvent, TRUE)>>]

\* the calls of one kind in a call list
CallsOf(calls, op) == SelectSeq(calls, LAMBDA c : c.op = op)

\* events the calls of a run stored
Saved(calls) ==
    { calls[i].ev : i \in { j \in 1..Len(calls) :
                              calls[j].op = "save" /\ calls[j].ok } }

\* a started rebroadcastEvent: `event` and `relays` are its arguments;
\* `req` is the request it was started for, `site` the call site, and
\* `mixed` remembers the mixed event of that request
NewTask(req, site, event, mixed, relays) ==
    [req |-> req, site |-> site, event |-> event, mixed |-> mixed,
     relays |-> relays]

\* the goroutines a run of mixAndStoreEvent started
Spawned(calls, req, relays) ==
    { NewTask(req, "detached", calls[i].ev, calls[i].ev, relays) :
          i \in { j \in 1..Len(calls) : calls[j].op = "go" } }

NoRun ==
    [path |-> "none", inbound |-> <<>>, reject |-> FALSE, reason |-> <<>>,
     checked |-> <<>>, err |-> "", calls |-> <<>>, before |-> {}]
NoRet ==
    [site |-> "none", req |-> 0, event |-> <<>>, mixed |-> <<>>,
     relays |-> <<>>, outcomes |-> <<>>, errors |-> <<>>, trace |-> <<>>]
NoResp == [status |-> 0, msg |-> "", issues |-> <<>>]

\* ------------------------------------------------------- rebroadcastEvent
Op(op, url) == [op |-> op, url |-> url]

\* what the peer at url does with this attempt: RelayConnect fails
\* ("connect"), Publish fails ("publish"), or both succeed ("ok");
\* there is no relay to connect to at the empty address
Outcomes(url) == IF url = <<>> THEN {"connect"} ELSE {"connect", "publish", "ok"}

\* the closure returning nil when Publish failed
AttemptDroppingPublishError(url, outcome) ==
    CASE outcome = "connect" ->
            [err |-> <<"failed to connect to relay ", url>>,
             ops |-> <<Op("connect-failed", url)>>]
      [] outcome = "publish" ->
            [err |-> <<>>,
             ops |-> <<Op("connect", url), Op("publish-failed", url),
                       Op("close", url)>>]
      [] OTHER ->
            [err |-> <<>>,
             ops |-> <<Op("connect", url), Op("publish", url),
                       Op("close", url)>>]

\* the closure of rebroadcastEvent, lines 230-242, for one url: the calls
\* it makes to the peer and the error it returns (<<>> is nil)
\* Attempt closing the connection only after a successful publish
AttemptLeakingOnPublishError(url, outcome) ==
    CASE outcome = "connect" ->
            [err |-> <<"failed to connect to relay ", url>>,
             ops |-> <<Op("connect-failed", url)>>]
      [] outcome = "publish" ->
            [err |-> <<"failed to publish event to relay ", url>>,
             ops |-> <<Op("connect", url), Op("publish-failed", url)>>]
      [] OTHER ->
            [err |-> <<>>,
             ops |-> <<Op("connect", url), Op("publish", url),
                       Op("close", url)>>]

Attempt(url, outcome) ==
    CASE outcome = "connect" ->
            [err |-> <<"failed to connect to relay ", url>>,
             ops |-> <<Op("connect-failed", url)>>]
      [] outcome = "publish" ->
            [err |-> <<"failed to publish event to relay ", url>>,
             ops |-> <<Op("connect", url), Op("publish-failed", url),
                       Op("close", url)>>]
      [] OTHER ->
            [err |-> <<>>,
             ops |-> <<Op("connect", url), Op("publish", url),
                       Op("close", url)>>]

\* the loop of rebroadcastEvent, lines 229-246, from relay i on:
\* outcomes[i] is what the peer relays[i] does
RECURSIVE LoopFrom(_, _, _)
LoopFrom(i, relays, outcomes) ==
    IF i > Len(relays)
    THEN [errors |-> <<>>, trace |-> <<>>]
    ELSE LET a == Attempt(relays[i], outcomes[i])
             rest == LoopFrom(i + 1, relays, outcomes)
         IN  [errors |-> (IF a.err # <<>> THEN <<a.err>> ELSE <<>>) \o rest.errors,
              trace |-> a.ops \o rest.trace]

\* the loop leaving at the first relay that fails
RECURSIVE LoopUntilError(_, _, _)
LoopUntilError(i, relays, outcomes) ==
    IF i > Len(relays)
    THEN [errors |-> <<>>, trace |-> <<>>]
    ELSE LET a == Attempt(relays[i], outcomes[i])
         IN  IF a.err # <<>>
             THEN [errors |-> <<a.err>>, trace |-> a.ops]
             ELSE LET rest == LoopUntilError(i + 1, relays, outcomes)
                  IN  [errors |-> rest.errors, trace |-> a.ops \o rest.trace]

rebroadcastEventUntilError(relays, outcomes) ==
    LoopUntilError(1, relays, outcomes)

\* rebroadcastEvent: the errors it returns and the calls it made to peers
rebroadcastEvent(relays, outcomes) == LoopFrom(1, relays, outcomes)

\* the outcomes the peers of a relay list can produce
OutcomeSeqs(relays) ==
    { o \in [1..Len(relays) -> {"connect", "publish", "ok"}] :
          \A i \in 1..Len(relays) : o[i] \in Outcomes(relays[i]) }

\* the response turning into a failure when a peer failed
SubmitResponseFailingOnErrors(rebroadcastErrors) ==
    IF rebroadcastErrors # <<>>
    THEN [status |-> 200, msg |-> "Failed to rebroadcast event",
          issues |-> <<>>]
    ELSE [status |-> 200, msg |-> "Note submitted successfully!",
          issues |-> <<>>]

\* the response createSubmitNoteHandler writes after the in-line
\* rebroadcast, lines 327-337
SubmitResponse(rebroadcastErrors) ==
    [status |-> 200, msg |-> "Note submitted successfully!",
     issues |-> rebroadcastErrors]

\* ------------------------------------------------------------------ actions
Init ==
    /\ config \in Configs
    /\ now = 0
    /\ nreq = 0
    /\ db = {}
    /\ tasks = {}
    /\ last = NoRun
    /\ ret = NoRet
    /\ resp = NoResp

\* the clock advances
Tick ==
    /\ now < MaxClock
    /\ now' = now + 1
    /\ last' = NoRun /\ ret' = NoRet /\ resp' = NoResp
    /\ UNCHANGED <<config, nreq, db, tasks>>

\* HandleEvent with mixAndStoreEvent calling rebroadcastEvent without `go`
\* and returning an error when a peer failed
HandleEventAwaitingPeers(event, generic, saveOk) ==
    /\ nreq < MaxReq
    /\ nreq' = nreq + 1
    /\ LET a == admit(event, generic)
           r == IF a.reject
                THEN [err |-> "", calls |-> <<>>]
                ELSE mixAndStoreEvent(event, config.RelayPrivateKey, now, saveOk)
           go == CallsOf(r.calls, "go")
       IN  /\ db' = db \cup Saved(r.calls)
           /\ tasks' = tasks
           /\ \E o \in OutcomeSeqs(config.RebroadcastRelays) :
                 LET b == rebroadcastEvent(config.RebroadcastRelays, o)
                     failed == go # <<>> /\ b.errors # <<>>
                 IN  /\ last' = [path |-> "native", inbound |-> <<event>>,
                                 reject |-> a.reject, reason |-> a.reason,
                                 checked |-> a.checked,
                                 err |-> IF failed THEN "rebroadcast failed"
                                         ELSE r.err,
                                 calls |-> r.calls, before |-> db]
                     /\ ret' = IF go = <<>> THEN NoRet
                               ELSE [site |-> "detached", req |-> nreq',
                                     event |-> <<go[1].ev>>,
                                     mixed |-> <<go[1].ev>>,
                                     relays |-> config.RebroadcastRelays,
                                     outcomes |-> o, errors |-> b.errors,
                                     trace |-> b.trace]
    /\ resp' = NoResp
    /\ UNCHANGED <<config, now>>

\* An EVENT message on the protocol-native path: the admission chain, then
\* the StoreEvent handler registered by setupRelayHandlers.
HandleEvent(event, generic, saveOk) ==
    /\ nreq < MaxReq
    /\ nreq' = nreq + 1
    /\ LET a == admit(event, generic)
           r == IF a.reject
                THEN [err |-> "", calls |-> <<>>]
                ELSE mixAndStoreEvent(event, config.RelayPrivateKey, now, saveOk)
       IN  /\ last' = [path |-> "native", inbound |-> <<event>>,
                       reject |-> a.reject, reason |-> a.reason,
                       checked |-> a.checked, err |-> r.err,
                       calls |-> r.calls, before |-> db]
           /\ db' = db \cup Saved(r.calls)
           /\ tasks' = tasks \cup Spawned(r.calls, nreq', config.RebroadcastRelays)
    /\ ret' = NoRet /\ resp' = NoResp
    /\ UNCHANGED <<config, now>>

\* SubmitNote without the test of the whitelist, lines 293-298
SubmitNoteWithoutWhitelistTest(method, content, t1, t2, saveOk) ==
    LET event == Sign(NewEvent(content, t1, 1, <<>>), config.RelayPrivateKey)
        r == mixAndStoreEvent(event, config.RelayPrivateKey, t2, saveOk)
        early(status, msg) ==
            [resp |-> [status |-> status, msg |-> msg, issues |-> <<>>],
             inbound |-> <<>>, calls |-> <<>>, err |-> "", inline |-> <<>>]
    IN  IF method # "POST" THEN early(405, "Method not allowed")
        ELSE IF content = "" THEN early(200, "Content cannot be empty")
        ELSE IF ~ValidKey(config.RelayPrivateKey)
        THEN early(200, "Failed to sign event")
        ELSE IF r.err # ""
        THEN [resp |-> [status |-> 200, msg |-> "Failed to store event",
                        issues |-> <<>>],
              inbound |-> <<event>>, calls |-> r.calls, err |-> r.err,
              inline |-> <<>>]
        ELSE [resp |-> NoResp, inbound |-> <<event>>, calls |-> r.calls,
              err |-> "", inline |-> <<event>>]

\* what the handler of createSubmitNoteHandler does up to the in-line call
\* of rebroadcastEvent: the clock reads t1 at line 308 and t2 at line 171
SubmitNote(method, content, t1, t2, saveOk) ==
    LET event == Sign(NewEvent(content, t1, 1, <<>>), config.RelayPrivateKey)
        r == mixAndStoreEvent(event, config.RelayPrivateKey, t2, saveOk)
        early(status, msg) ==
            [resp |-> [status |-> status, msg |-> msg, issues |-> <<>>],
             inbound |-> <<>>, calls |-> <<>>, err |-> "", inline |-> <<>>]
    IN  IF method # "POST" THEN early(405, "Method not allowed")
        ELSE IF Cardinality(config.WhitelistedPubkeys) > 0
        THEN early(403, "This relay is not open for public submissions")
        ELSE IF content = "" THEN early(200, "Content cannot be empty")
        ELSE IF ~ValidKey(config.RelayPrivateKey)
        THEN early(200, "Failed to sign event")
        ELSE IF r.err # ""
        THEN [resp |-> [status |-> 200, msg |-> "Failed to store event",
                        issues |-> <<>>],
              inbound |-> <<event>>, calls |-> r.calls, err |-> r.err,
              inline |-> <<>>]
        ELSE [resp |-> NoResp, inbound |-> <<event>>, calls |-> r.calls,
              err |-> "", inline |-> <<event>>]

\* A request to /submit-note, up to the point where the handler either has
\* answered or waits for the in-line rebroadcastEvent.
HTTPSubmit(method, content, dt, saveOk) ==
    /\ nreq < MaxReq
    /\ now + dt <= MaxClock
    /\ nreq' = nreq + 1
    /\ LET h == SubmitNote(method, content, now, now + dt, saveOk)
           mixed == CallsOf(h.calls, "go")
       IN  /\ last' = [path |-> "http", inbound |-> h.inbound,
                       reject |-> FALSE, reason |-> <<>>, checked |-> <<>>,
                       err |-> h.err, calls |-> h.calls, before |-> db]
           /\ resp' = h.resp
           /\ db' = db \cup Saved(h.calls)
           /\ tasks' = tasks
                \cup Spawned(h.calls, nreq', config.RebroadcastRelays)
                \cup { NewTask(nreq', "inline", h.inline[i], mixed[1].ev,
                               config.RebroadcastRelays) :
                           i \in 1..Len(h.inline) }
           /\ now' = IF h.calls # <<>> THEN now + dt ELSE now
    /\ ret' = NoRet
    /\ UNCHANGED config

\* A started rebroadcastEvent runs through its relays and returns: the
\* goroutine ends, or the HTTP handler goes on to write its response.
Rebroadcast(t, outcomes) ==
    /\ t \in tasks
    /\ outcomes \in OutcomeSeqs(t.relays)
    /\ LET r == rebroadcastEvent(t.relays, outcomes)
       IN  /\ ret' = [site |-> t.site, req |-> t.req, event |-> <<t.event>>,
                      mixed |-> <<t.mixed>>, relays |-> t.relays,
                      outcomes |-> outcomes, errors |-> r.errors,
                      trace |-> r.trace]
           /\ resp' = IF t.site = "inline"
                      THEN SubmitResponse(r.errors)
                      ELSE NoResp
    /\ tasks' = tasks \ {t}
    /\ last' = NoRun
    /\ UNCHANGED <<config, now, nreq, db>>

Next ==
    \/ Tick
    \/ \E e \in InboundEvents, g \in GenericVerdicts, ok \in BOOLEAN :
          HandleEvent(e, g, ok)
    \/ \E m \in Methods, c \in FormContents, dt \in {0, 1}, ok \in BOOLEAN :
          HTTPSubmit(m, c, dt, ok)
    \/ \E t \in tasks : \E o \in OutcomeSeqs(t.relays) : Rebroadcast(t, o)

Spec == Init /\ [][Next]_vars

\* The same relay with two requests left to handle, for the properties
\* that relate one handled request to the next.
InitPair ==
    /\ config \in Configs
    /\ now = 0
    /\ nreq = MaxReq - 2
    /\ db = {}
    /\ tasks = {}
    /\ last = NoRun
    /\ ret = NoRet
    /\ resp = NoResp

SpecPair == InitPair /\ [][Next]_vars

\* =================================================================== claims
\* the public key the relay signs with
RelayPublicKey == GetPublicKey(config.RelayPrivateKey)

\* the signature of e validates against the public key pk: e names pk as
\* its author, its id is the hash of its fields, and its signature was
\* made over that id with the private key of pk
ValidatesAgainst(e, pk) ==
    /\ e.sig.signer = pk
    /\ e.pubkey = pk
    /\ e.id = GetID(e)
    /\ e.sig.msg = e.id

\* a handler ran in this step and got as far as mixAndStoreEvent
Ran == last.calls # <<>>

\* the handler that ran in this step signed a mixed event
Signed == Ran /\ last.calls[1].op = "sign" /\ last.calls[1].ok

\* the events the handler that ran in this step handed to a collaborator
HandedTo(op) ==
    { last.calls[i].ev : i \in { j \in 1..Len(last.calls) : last.calls[j].op = op } }

\* the ops of one kind in a trace of calls to peers
OpsOf(trace, ops) == SelectSeq(trace, LAMBDA o : o.op \in ops)

\* ---------------------------------------------------------------------- C1
\* C1 (as claimed): on both paths, every event saved, locally broadcast or
\* published to a peer relay is the mixed event of mixAndStoreEvent; the
\* inbound event is never published to a peer.
C1_OnlyMixedLeaves ==
    /\ Ran => \A op \in {"save", "broadcast", "go"} :
                  \A e \in HandedTo(op) : e = last.calls[1].ev
    /\ (ret.site # "none" /\ OpsOf(ret.trace, {"publish"}) # <<>>)
          => ret.event = ret.mixed

\* ---------------------------------------------------------------------- C2
\* C2 (as claimed): every event in the store has a kind of the configured
\* allowed-kinds list, and no event of another kind reaches the mixing
\* transform, on either path.
C2_StoredKindsAllowed ==
    /\ \A e \in db : InSeq(e.kind, config.AllowedKinds)
    /\ Ran => InSeq(last.inbound[1].kind, config.AllowedKinds)

\* ---------------------------------------------------------------------- C3
\* C3 (as claimed): for every mixed event of either path, the signature
\* validates against the relay's key and not against the inbound event's
\* publicKey: the mixed publicKey differs from the inbound publicKey.
C3_MixedKeyDiffersFromInbound ==
    Signed =>
        LET mixed == last.calls[1].ev
            inbound == last.inbound[1]
        IN  /\ ValidatesAgainst(mixed, RelayPublicKey)
            /\ ~ValidatesAgainst(mixed, inbound.pubkey)
            /\ mixed.pubkey # inbound.pubkey

\* C3 (amended): for every mixed event of either path, the signature
\* validates against the relay's key, and it validates against the inbound
\* event's publicKey exactly when the inbound event was itself signed with
\* the relay's key, which is so for every event the HTTP handler
\* synthesizes and for a native event published under the relay's key.
C3_MixedSignedByRelay ==
    Signed =>
        LET mixed == last.calls[1].ev
            inbound == last.inbound[1]
        IN  /\ ValidatesAgainst(mixed, RelayPublicKey)
            /\ mixed.pubkey = RelayPublicKey
            /\ ValidatesAgainst(mixed, inbound.pubkey)
                  <=> inbound.pubkey = RelayPublicKey
            /\ last.path = "http" => inbound.pubkey = RelayPublicKey

\* an HTTP submission was mixed and signed: the event the handler made and
\* the mixed event carry the same publicKey
C3_Witness ==
    /\ Signed
    /\ last.path = "http"
    /\ last.inbound[1].pubkey = last.calls[1].ev.pubkey

\* ---------------------------------------------------------------------- C4
\* C4: for every inbound event that reaches the mixing transform, the
\* mixed event handed to the store has the inbound event's content, kind
\* and tags, and the publicKey derived from the relay's private key,
\* whatever the inbound publicKey, id and signature; a successful save
\* puts that event in the store.
C4_MixedPreservesPayload ==
    Ran =>
        \A i \in 1..Len(last.calls) :
            last.calls[i].op = "save" =>
                LET mixed == last.calls[i].ev
                    inbound == last.inbound[1]
                IN  /\ mixed.content = inbound.content
                    /\ mixed.kind = inbound.kind
                    /\ mixed.tags = inbound.tags
                    /\ mixed.pubkey = RelayPublicKey
                    /\ last.calls[i].ok => mixed \in db

\* a native event of author abc with tags was mixed and saved
C4_Witness ==
    /\ last.path = "native"
    /\ HandedTo("save") # {}
    /\ last.inbound[1].pubkey = "abc"
    /\ last.inbound[1].tags # <<>>
    /\ \E e \in db : e.tags # <<>> /\ e.pubkey = "relaypub"

\* ---------------------------------------------------------------------- C5
PubkeyReason == <<"pubkey not whitelisted">>

\* the inbound event of the native request handled in this step fails the
\* pubkey allowlist
FailsPubkeyCheck ==
    /\ last.path = "native"
    /\ config.WhitelistedPubkeys # {}
    /\ last.inbound[1].pubkey \notin config.WhitelistedPubkeys

\* C5: on the protocol-native path the pubkey allowlist check is evaluated
\* before the kind allowlist check and the chain stops at the first
\* rejection: an event failing both checks is rejected with exactly
\* "pubkey not whitelisted", and after a rejecting check no other check is
\* evaluated and mixAndStoreEvent is not called.
C5_PubkeyCheckBeforeKindCheck ==
    last.path = "native" =>
        /\ (FailsPubkeyCheck
              /\ ~InSeq(last.inbound[1].kind, config.AllowedKinds))
              => /\ last.reject
                 /\ last.reason = PubkeyReason
                 /\ last.checked = <<"RejectNonWhitelistedPubkeys">>
        /\ last.checked[1] = "RejectNonWhitelistedPubkeys"
        /\ Len(last.checked) >= 2 => last.checked[2] = "RejectUnsupportedKinds"
        /\ last.reject => ~Ran
        /\ (last.reject /\ last.reason # PubkeyReason)
              => ~FailsPubkeyCheck

\* an event failing both checks was rejected
C5_Witness ==
    /\ FailsPubkeyCheck
    /\ ~InSeq(last.inbound[1].kind, config.AllowedKinds)
    /\ last.reject

\* ---------------------------------------------------------------------- C6
\* C6: with a non-empty pubkey allowlist, an event whose publicKey is not a
\* member is rejected with "pubkey not whitelisted" and an event whose
\* publicKey is a member is not rejected by the pubkey check; with an
\* empty allowlist no event is rejected by the pubkey check, whatever its
\* publicKey.
C6_PubkeyAllowlist ==
    last.path = "native" =>
        /\ FailsPubkeyCheck => (last.reject /\ last.reason = PubkeyReason)
        /\ ~FailsPubkeyCheck =>
              /\ last.reason # PubkeyReason
              /\ Len(last.checked) >= 2

\* with an empty allowlist an event of any author went past the pubkey
\* check and was mixed
C6_Witness ==
    /\ last.path = "native"
    /\ config.WhitelistedPubkeys = {}
    /\ last.inbound[1].pubkey = "xyz"
    /\ Ran

\* ---------------------------------------------------------------------- C7
\* rebroadcastEvent was started, at either call site, for the request
\* handled in this step
RebroadcastStarted == \E t \in tasks : t.req = nreq

\* C7: on both paths a failure aborts all later steps.  If signing the
\* mixed event fails, save, local broadcast and rebroadcast are not
\* invoked; if save fails, local broadcast and rebroadcast (detached and
\* in-line) are not invoked and the store is unchanged; the error is
\* returned to the caller: an error on the native path, the failure
\* message on the HTTP path.
C7_FailureAborts ==
    Ran =>
        /\ (\E i \in 1..Len(last.calls) : ~last.calls[i].ok) => last.err # ""
        /\ ~last.calls[1].ok =>
              /\ last.err = "failed to sign mixed event"
              /\ HandedTo("save") = {}
        /\ last.err # "" =>
              /\ ~last.calls[Len(last.calls)].ok
              /\ HandedTo("broadcast") = {}
              /\ HandedTo("go") = {}
              /\ ~RebroadcastStarted
              /\ db = last.before
              /\ last.path = "http" =>
                    resp = [status |-> 200, msg |-> "Failed to store event",
                            issues |-> <<>>]

\* the save of an HTTP submission failed and the handler answered
C7_Witness ==
    /\ last.path = "http"
    /\ last.err = "failed to save mixed event"
    /\ HandedTo("save") # {}
    /\ resp.msg = "Failed to store event"

\* ---------------------------------------------------------------------- C8
\* the relays rebroadcastEvent tried to connect to, in the order of the calls
ConnectAttempts(trace) ==
    LET a == OpsOf(trace, {"connect", "connect-failed"})
    IN  [i \in 1..Len(a) |-> a[i].url]

\* C8: whatever the relay list and the connect and publish failures, one
\* invocation of rebroadcastEvent makes exactly one connect attempt per
\* entry of the list, in list order.
C8_OneAttemptPerRelay ==
    ret.site # "none" => ConnectAttempts(ret.trace) = ret.relays

\* the first of two relays failed and the second was still attempted
C8_Witness ==
    /\ ret.site # "none"
    /\ Len(ret.relays) = 2
    /\ ret.outcomes[1] # "ok"
    /\ ret.trace[Len(ret.trace)].url = ret.relays[2]

\* ---------------------------------------------------------------------- C9
\* the relays of a list whose outcome is a failure, in list order
RECURSIVE FailedRelays(_, _)
FailedRelays(relays, outcomes) ==
    IF relays = <<>> THEN <<>>
    ELSE (IF Head(outcomes) # "ok" THEN <<Head(relays)>> ELSE <<>>)
            \o FailedRelays(Tail(relays), Tail(outcomes))

\* C9: the list rebroadcastEvent returns has exactly one entry for each
\* relay whose connect or publish failed and none for the others, each
\* entry names the address of the relay that failed, and the entries are
\* in the order of the relay list; it is empty exactly when every relay
\* succeeded.
C9_ErrorsNameFailedRelays ==
    ret.site # "none" =>
        LET failed == FailedRelays(ret.relays, ret.outcomes)
        IN  /\ Len(ret.errors) = Len(failed)
            /\ \A i \in 1..Len(failed) :
                  /\ Len(ret.errors[i]) = 2
                  /\ ret.errors[i][2] = failed[i]
                  /\ ret.errors[i][1] \in {"failed to connect to relay ",
                                           "failed to publish event to relay "}
            /\ ret.errors = <<>>
                  <=> \A i \in 1..Len(ret.relays) : ret.outcomes[i] = "ok"

\* relay a is unreachable and relay b succeeds: one error, naming a
C9_Witness ==
    /\ ret.relays = <<RelayA, RelayB>>
    /\ ret.outcomes = <<"connect", "ok">>
    /\ Len(ret.errors) = 1
    /\ ret.errors[1][2] = RelayA

\* --------------------------------------------------------------------- C10
\* C10: on the protocol-native path the rebroadcast is detached: when
\* mixAndStoreEvent returns, after save and local broadcast, it returns
\* success while the rebroadcastEvent it started has contacted no peer
\* yet, so its return value is the same for every outcome of the
\* rebroadcast; what the detached rebroadcastEvent returns later reaches
\* neither a response nor a handler.
C10_NativeRebroadcastDetached ==
    /\ (last.path = "native" /\ HandedTo("broadcast") # {})
          => /\ last.err = ""
             /\ ret = NoRet
             /\ \E t \in tasks :
                   /\ t.req = nreq
                   /\ t.site = "detached"
                   /\ t.event \in HandedTo("broadcast")
    /\ ret.site = "detached" => (resp = NoResp /\ last = NoRun)

\* a native event was stored and broadcast with two relays configured, one
\* of them unreachable
C10_Witness ==
    /\ last.path = "native"
    /\ HandedTo("broadcast") # {}
    /\ Len(config.RebroadcastRelays) = 2
    /\ config.RebroadcastRelays[2] = <<>>

\* --------------------------------------------------------------------- C11
ClosedResponse ==
    [status |-> 403, msg |-> "This relay is not open for public submissions",
     issues |-> <<>>]

\* C11: with a non-empty pubkey allowlist every submission over HTTP is
\* answered with the fixed "not open for public submissions" rejection (a
\* request that is not a POST with "Method not allowed") and has no
\* effect: nothing is signed, saved, locally broadcast or rebroadcast.
C11_ClosedWhenWhitelisted ==
    (last.path = "http" /\ config.WhitelistedPubkeys # {}) =>
        /\ resp = ClosedResponse \/ resp.status = 405
        /\ last.inbound = <<>>
        /\ ~Ran
        /\ db = last.before
        /\ ~RebroadcastStarted

\* a submission to a relay with an allowlist was answered with the rejection
C11_Witness ==
    /\ last.path = "http"
    /\ config.WhitelistedPubkeys # {}
    /\ resp = ClosedResponse

\* --------------------------------------------------------------------- C12
\* C12: a peer failure never aborts or undoes anything: whatever the
\* peers do, the mixed event of the request stays in the store, the
\* native handler that stored and broadcast it returned success, and the
\* HTTP handler answers with the success message followed by exactly the
\* errors its in-line rebroadcastEvent returned (none when every peer
\* succeeded).
C12_PeerFailureNeverAborts ==
    /\ ret.site # "none" =>
          /\ ret.mixed[1] \in db
          /\ ret.site = "inline" =>
                /\ resp.status = 200
                /\ resp.msg = "Note submitted successfully!"
                /\ resp.issues = ret.errors
                /\ resp.issues = <<>>
                      <=> \A i \in 1..Len(ret.relays) : ret.outcomes[i] = "ok"
          /\ ret.site = "detached" => resp = NoResp
    /\ (last.path = "native" /\ HandedTo("broadcast") # {}) => last.err = ""

\* the in-line rebroadcast of a submission failed at a peer and the
\* handler answered with the success message and the error
C12_Witness ==
    /\ ret.site = "inline"
    /\ Len(ret.errors) = 1
    /\ Len(ret.relays) = 2
    /\ resp.msg = "Note submitted successfully!"
    /\ resp.issues = ret.errors

\* --------------------------------------------------------------------- C13
\* C13 (as claimed): for every inbound event that passes admission, also
\* one whose createdAt is ahead of the relay's clock, the mixed createdAt
\* is the clock value read at mixing time and is greater than or equal to
\* the inbound createdAt.
C13_MixedNotBeforeInbound ==
    Signed =>
        /\ last.calls[1].ev.created_at = now
        /\ last.calls[1].ev.created_at >= last.inbound[1].created_at

\* C13 (amended): the mixed createdAt is the clock value read at mixing
\* time, whatever the inbound createdAt; it is greater than or equal to
\* the inbound createdAt exactly when the inbound createdAt is not ahead
\* of the relay's clock at mixing time, which holds for every event the
\* HTTP handler synthesizes.
C13_MixedAtRelayClock ==
    Signed =>
        /\ last.calls[1].ev.created_at = now
        /\ last.calls[1].ev.created_at >= last.inbound[1].created_at
              <=> last.inbound[1].created_at <= now
        /\ last.path = "http" => last.inbound[1].created_at <= now

\* a native event dated ahead of the relay's clock was mixed
C13_Witness ==
    /\ Signed
    /\ last.path = "native"
    /\ last.inbound[1].created_at > now
    /\ last.calls[1].ev.created_at = now

\* --------------------------------------------------------------------- C15
CallAt(op) == { i \in 1..Len(last.calls) : last.calls[i].op = op }

\* the calls of the handler are in the order save, local broadcast, start of
\* the rebroadcast
SaveBroadcastRebroadcast ==
    /\ \A i \in CallAt("broadcast") :
          \E j \in CallAt("save") :
              /\ j < i
              /\ last.calls[j].ok
              /\ last.calls[j].ev = last.calls[i].ev
    /\ \A i \in CallAt("go") :
          \E j \in CallAt("broadcast") :
              j < i /\ last.calls[j].ev = last.calls[i].ev

\* every rebroadcast started in this step, detached or in-line, is for an
\* event this step's handler has saved and handed to the local broadcast
StartedAfterBroadcast ==
    \A t \in tasks' \ tasks :
        /\ t.mixed \in { last'.calls[i].ev :
                           i \in { j \in 1..Len(last'.calls) :
                                       last'.calls[j].op = "broadcast" } }
        /\ t.mixed \in db'

\* peers are contacted only by a rebroadcast that was started in an earlier
\* step
ContactsOnlyWhenStarted ==
    ret'.site # "none" =>
        \E t \in tasks :
            /\ t.req = ret'.req
            /\ t.site = ret'.site
            /\ <<t.mixed>> = ret'.mixed
            /\ t \notin tasks'

\* C15: for every mixed event the order is save, local broadcast, peer
\* rebroadcast: the local broadcast is invoked only after save returned
\* success, and no rebroadcast of the event, detached or in-line, is
\* started (so no peer is contacted) before the local broadcast of that
\* event has been invoked.
C15_SaveBroadcastRebroadcast ==
    /\ [](SaveBroadcastRebroadcast /\ \A t \in tasks : t.mixed \in db)
    /\ [][StartedAfterBroadcast /\ ContactsOnlyWhenStarted]_vars

\* a peer was contacted in-line for an event that is in the store
C15_Witness ==
    /\ ret.site = "inline"
    /\ ConnectAttempts(ret.trace) # <<>>
    /\ ret.mixed[1] \in db

\* --------------------------------------------------------------------- C17
OpenAfter(trace, i) ==
    Len(OpsOf(SubSeq(trace, 1, i), {"connect"}))
        - Len(OpsOf(SubSeq(trace, 1, i), {"close"}))

\* the index of the latest connect attempt before position i (0 if none)
AttemptBefore(trace, i) ==
    LET a == { j \in 1..(i - 1) : trace[j].op \in {"connect", "connect-failed"} }
    IN  IF a = {} THEN 0 ELSE CHOOSE j \in a : \A k \in a : k <= j

\* C17: within one rebroadcastEvent every connection opened is closed
\* before the attempt against the next relay starts, after a successful
\* and after a failed publish; none is open when the function returns; and
\* close is never called for a relay whose connect failed.
C17_ConnectionsClosed ==
    ret.site # "none" =>
        /\ \A i \in 1..Len(ret.trace) :
              /\ ret.trace[i].op \in {"connect", "connect-failed"}
                    => OpenAfter(ret.trace, i - 1) = 0
              /\ ret.trace[i].op \in {"publish", "publish-failed", "close"}
                    => /\ OpenAfter(ret.trace, i - 1) = 1
                       /\ AttemptBefore(ret.trace, i) # 0
                       /\ ret.trace[AttemptBefore(ret.trace, i)]
                              = Op("connect", ret.trace[i].url)
        /\ OpenAfter(ret.trace, Len(ret.trace)) = 0
        /\ \A i \in 1..Len(ret.relays) :
              ret.outcomes[i] # "connect"
                  <=> \E j \in 1..Len(ret.trace) :
                          ret.trace[j] = Op("close", ret.relays[i])

\* the publish to the first relay failed, its connection was closed, and
\* then the connect to the second relay failed, which was not closed
C17_Witness ==
    /\ ret.site # "none"
    /\ Len(ret.relays) = 2
    /\ ret.outcomes[1] = "publish"
    /\ ret.outcomes[2] = "connect"
    /\ ret.trace = <<Op("connect", ret.relays[1]),
                     Op("publish-failed", ret.relays[1]),
                     Op("close", ret.relays[1]),
                     Op("connect-failed", ret.relays[2])>>

\* --------------------------------------------------------------------- C18
\* C18: for one successful HTTP submission every configured relay gets one
\* connect-and-publish attempt in total: when the rebroadcast of a
\* submission has contacted the relays, no other rebroadcast of the same
\* submission is there to contact them again.
C18_OneRebroadcastPerSubmission ==
    (ret.site # "none" /\ ConnectAttempts(ret.trace) # <<>>) =>
        \A t \in tasks : t.req # ret.req

\* --------------------------------------------------------------------- C19
\* C19: when REBROADCAST_RELAYS is unset or empty, the configured list is
\* empty, every rebroadcast makes no connect attempt and returns no
\* errors, and a successful HTTP submission reports no rebroadcast
\* issues; every entry of the configured list is a non-empty address.
C19_NoRelaysNoAttempts ==
    ret.site # "none" =>
        /\ config.RebroadcastRelays = ParseRelays(<<>>) =>
              /\ ret.relays = <<>>
              /\ ConnectAttempts(ret.trace) = <<>>
              /\ ret.errors = <<>>
              /\ resp.issues = <<>>
        /\ \A i \in 1..Len(ret.relays) : ret.relays[i] # <<>>

\* --------------------------------------------------------------------- C14
\* this step and the step before it each ran a handler that mixed an event
MixedTwice ==
    /\ Signed
    /\ last'.calls # <<>>
    /\ last'.calls[1].op = "sign"
    /\ last'.calls[1].ok

SamePayload(e, f) ==
    e.content = f.content /\ e.kind = f.kind /\ e.tags = f.tags

\* C14 (as claimed): mixing the same inbound event twice, however close
\* together in time, gives two mixed events with different createdAt and
\* different id, and the same content, kind and tags.
C14_TwoMixesDiffer ==
    [][(MixedTwice /\ last'.inbound = last.inbound) =>
          /\ last'.calls[1].ev.created_at # last.calls[1].ev.created_at
          /\ last'.calls[1].ev.id # last.calls[1].ev.id
          /\ SamePayload(last'.calls[1].ev, last.calls[1].ev)]_vars

\* C14 (amended): mixing the same inbound event twice gives two mixed
\* events with the same content, kind and tags; their createdAt and id
\* differ exactly when the clock, read in whole seconds, differs between
\* the two mixes, and two mixes within the same second give one and the
\* same mixed event.
C14_TwoMixesDifferByClock ==
    [][(MixedTwice /\ last'.inbound = last.inbound) =>
          /\ SamePayload(last'.calls[1].ev, last.calls[1].ev)
          /\ last.calls[1].ev.created_at = now
          /\ last'.calls[1].ev.created_at = now'
          /\ now' = now => last'.calls[1].ev = last.calls[1].ev
          /\ now' # now =>
                /\ last'.calls[1].ev.created_at # last.calls[1].ev.created_at
                /\ last'.calls[1].ev.id # last.calls[1].ev.id]_vars

\* a second submission over HTTP was mixed, within the second of an
\* earlier mix, into the event the earlier mix had stored
C14_Witness ==
    /\ Signed
    /\ last.path = "http"
    /\ last.inbound[1].created_at = now
    /\ last.calls[1].ev \in last.before

\* --------------------------------------------------------------------- C16
\* C16: the mixed event tells nothing about the inbound author: two
\* inbound events with the same content, kind and tags that differ in
\* publicKey, id, signature or createdAt, mixed under the relay's key at
\* the same clock value, give the same mixed event.
C16_MixedIndependentOfAuthor ==
    [][(/\ MixedTwice
        /\ last'.inbound # last.inbound
        /\ SamePayload(last'.inbound[1], last.inbound[1])
        /\ now' = now) =>
          last'.calls[1].ev = last.calls[1].ev]_vars

\* a native event of another author than the relay was mixed into an event
\* that an earlier mix had stored
C16_Witness ==
    /\ Signed
    /\ last.path = "native"
    /\ last.inbound[1].pubkey # RelayPublicKey
    /\ last.calls[1].ev \in last.before

====
